---- MODULE Spec2Model ----
(***************************************************************************)
(* Model of the HomeScreen component of src/app/(tabs)/index.tsx (the      *)
(* older src/app.js holds the same loadData and toggleFavorite).           *)
(*                                                                         *)
(* The React state of the component, the value stored by AsyncStorage      *)
(* under FAVORITES_KEY, the storage calls and POST requests that are in    *)
(* flight, and the stack of native alert dialogs that are open.  An        *)
(* async handler is cut at its awaited calls: the code between two awaits  *)
(* runs without interruption on the single JavaScript thread, the awaited  *)
(* call resolves or rejects in a later step.                               *)
(***************************************************************************)
EXTENDS Integers, Sequences, FiniteSets

VARIABLES
    users,              \* useState<User[]>            index.tsx:30
    favorites,          \* useState<number[]>          index.tsx:31
    isLoading,          \* useState(true)              index.tsx:32
    showOnlyFavorites,  \* useState(false)             index.tsx:33
    newUserName,        \* useState('')                index.tsx:34
    newUserEmail,       \* useState('')                index.tsx:35
    stored,             \* AsyncStorage value under FAVORITES_KEY
    storageQ,           \* AsyncStorage calls in flight, in issue order
    posts,              \* axios.post calls in flight, with the closure of addUser
    dialogs,            \* open Alert dialogs, the last one on top
    loadPc,             \* position of loadData
    toggling,           \* TRUE inside toggleFavorite, between setFavorites and setItem
    newFavorites,       \* the local variable of toggleFavorite
    start,              \* history: the list favorites was last set to by loadData or by the clear
    odd,                \* history: the ids toggled an odd number of times since then
    storageFailed,      \* history: some AsyncStorage call was rejected
    presses             \* history: the number of touches of the form, the buttons and the cards

vars == <<users, favorites, isLoading, showOnlyFavorites, newUserName, newUserEmail,
          stored, storageQ, posts, dialogs, loadPc, toggling, newFavorites,
          start, odd, storageFailed, presses>>

(***************************************************************************)
(* Bounds                                                                  *)
(***************************************************************************)
MaxPresses == 5     \* touches of the form, the buttons and the cards of the list
MaxStoredLen == 1   \* length of the favorites list found in storage at mount

(***************************************************************************)
(* Strings are sequences of one-character strings.                         *)
(***************************************************************************)
Last(s) == s[Len(s)]

Front(s) == SubSeq(s, 1, Len(s) - 1)

IsSpace(c) == c = " "

RECURSIVE TrimStart(_)
TrimStart(s) == IF s # <<>> /\ IsSpace(Head(s)) THEN TrimStart(Tail(s)) ELSE s

RECURSIVE TrimEnd(_)
TrimEnd(s) == IF s # <<>> /\ IsSpace(Last(s)) THEN TrimEnd(Front(s)) ELSE s

\* String.prototype.trim
Trim(s) == TrimEnd(TrimStart(s))

\* the texts typed into the two TextInputs
FieldValues == { <<>>, <<" ">>, <<"a">>, <<" ", "b", " ">> }

(***************************************************************************)
(* JSON.stringify and JSON.parse of an array of non-negative integers.     *)
(***************************************************************************)
Digits == <<"0", "1", "2", "3", "4", "5", "6", "7", "8", "9">>

DigitValue(c) == (CHOOSE k \in 1..10 : Digits[k] = c) - 1

IsDigit(c) == \E k \in 1..10 : Digits[k] = c

RECURSIVE NumberToString(_)
NumberToString(n) ==
    IF n < 10 THEN <<Digits[n + 1]>>
    ELSE NumberToString(n \div 10) \o <<Digits[(n % 10) + 1]>>

RECURSIVE JoinNumbers(_)
JoinNumbers(list) ==
    IF list = <<>> THEN <<>>
    ELSE IF Len(list) = 1 THEN NumberToString(list[1])
    ELSE NumberToString(list[1]) \o <<",">> \o JoinNumbers(Tail(list))

JSONstringify(list) == <<"[">> \o JoinNumbers(list) \o <<"]">>

\* reads the characters left to right; acc is the number being read, if any
RECURSIVE ParseItems(_, _, _)
ParseItems(chars, acc, inNumber) ==
    IF chars = <<>> THEN (IF inNumber THEN <<acc>> ELSE <<>>)
    ELSE IF IsDigit(Head(chars))
         THEN ParseItems(Tail(chars), (IF inNumber THEN acc * 10 ELSE 0) + DigitValue(Head(chars)), TRUE)
         ELSE (IF inNumber THEN <<acc>> ELSE <<>>) \o ParseItems(Tail(chars), 0, FALSE)

JSONparse(text) == ParseItems(SubSeq(text, 2, Len(text) - 1), 0, FALSE)

(***************************************************************************)
(* The two external services.                                              *)
(***************************************************************************)
\* what GET /users answers
ServerUsers == << [id |-> 1, name |-> <<"x">>, email |-> <<"x">>],
                  [id |-> 2, name |-> <<"y">>, email |-> <<"y">>] >>

\* the identifier POST /users assigns
PostIds == {11}

\* ids that may be left in storage by an earlier session (9 matches no user)
StoredIds == {1, 11, 9}

Absent == [present |-> FALSE, value |-> <<>>]

Present(text) == [present |-> TRUE, value |-> text]

RECURSIVE ListsUpTo(_)
ListsUpTo(n) ==
    IF n = 0 THEN { <<>> }
    ELSE LET shorter == ListsUpTo(n - 1)
         IN  shorter \cup { Append(l, i) : l \in shorter, i \in StoredIds }

includes(list, x) == \E i \in 1..Len(list) : list[i] = x

NoDuplicates(list) == \A i, j \in 1..Len(list) : list[i] = list[j] => i = j

\* what an earlier session of the program can have left under the key
InitialStored ==
    {Absent} \cup { Present(JSONstringify(l)) : l \in { m \in ListsUpTo(MaxStoredLen) : NoDuplicates(m) } }

Elements(list) == { list[i] : i \in 1..Len(list) }

Init ==
    /\ users = <<>>
    /\ favorites = <<>>
    /\ isLoading = TRUE
    /\ showOnlyFavorites = FALSE
    /\ newUserName = <<>>
    /\ newUserEmail = <<>>
    /\ stored \in InitialStored
    /\ storageQ = <<>>
    /\ posts = <<>>
    /\ dialogs = <<>>
    /\ loadPc = "init"
    /\ toggling = FALSE
    /\ newFavorites = <<>>
    /\ start = <<>>
    /\ odd = {}
    /\ storageFailed = FALSE
    /\ presses = 0

(***************************************************************************)
(* Helpers of the handlers.                                                *)
(***************************************************************************)
\* Array.prototype.filter with (id) => id !== userId
RECURSIVE without(_, _)
without(list, userId) ==
    IF list = <<>> THEN <<>>
    ELSE IF Head(list) # userId THEN <<Head(list)>> \o without(Tail(list), userId)
    ELSE without(Tail(list), userId)

\* the filter written favorites.includes(user): a record is never among the ids
favoriteUsers_byRecord(us, favs) == <<>>

\* users.filter((user) => favorites.includes(user.id))
RECURSIVE favoriteUsers(_, _)
favoriteUsers(us, favs) ==
    IF us = <<>> THEN <<>>
    ELSE IF includes(favs, Head(us).id) THEN <<Head(us)>> \o favoriteUsers(Tail(us), favs)
    ELSE favoriteUsers(Tail(us), favs)

getFilteredUsers ==
    IF showOnlyFavorites THEN favoriteUsers(users, favorites) ELSE users

\* toggleFavorite without the includes test: the id is appended in every case
toggled_alwaysAppends(favs, userId) == Append(favs, userId)

\* the list toggleFavorite computes
toggled(favs, userId) ==
    IF includes(favs, userId) THEN without(favs, userId) ELSE Append(favs, userId)

\* no handler is in the middle of a synchronous stretch of code
Idle == ~toggling

\* the screen shows the form, the buttons and the list, and no dialog covers it
Interactive == Idle /\ ~isLoading /\ dialogs = <<>> /\ presses < MaxPresses

SymDiff(a, b) == (a \ b) \cup (b \ a)

historyVars == <<start, odd, storageFailed>>

formVars == <<newUserName, newUserEmail>>

(***************************************************************************)
(* loadData, run once by the mount effect.                                 *)
(***************************************************************************)
loadData ==
    /\ Idle /\ loadPc = "init"
    /\ UNCHANGED presses
    /\ isLoading' = TRUE
    /\ loadPc' = "fetching"
    /\ UNCHANGED <<users, favorites, showOnlyFavorites, formVars, stored, storageQ, posts,
                   dialogs, toggling, newFavorites, historyVars>>

\* axios.get resolves: setUsers, then getItem is called
loadData_fetched ==
    /\ Idle /\ loadPc = "fetching"
    /\ UNCHANGED presses
    /\ users' = ServerUsers
    /\ storageQ' = Append(storageQ, [op |-> "getItem", value |-> <<>>])
    /\ loadPc' = "reading"
    /\ UNCHANGED <<favorites, isLoading, showOnlyFavorites, formVars, stored, posts,
                   dialogs, toggling, newFavorites, historyVars>>

\* loadData with the read of the favorites moved out of the try: it runs after a failed GET too
loadData_fetchFailedStillReads ==
    /\ Idle /\ loadPc = "fetching"
    /\ UNCHANGED presses
    /\ dialogs' = Append(dialogs, "loadError")
    /\ storageQ' = Append(storageQ, [op |-> "getItem", value |-> <<>>])
    /\ isLoading' = FALSE
    /\ loadPc' = "fetchFailed"
    /\ UNCHANGED <<users, favorites, showOnlyFavorites, formVars, stored, posts,
                   toggling, newFavorites, historyVars>>

\* axios.get rejects: catch, finally
loadData_fetchFailed ==
    /\ Idle /\ loadPc = "fetching"
    /\ UNCHANGED presses
    /\ dialogs' = Append(dialogs, "loadError")
    /\ isLoading' = FALSE
    /\ loadPc' = "fetchFailed"
    /\ UNCHANGED <<users, favorites, showOnlyFavorites, formVars, stored, storageQ, posts,
                   toggling, newFavorites, historyVars>>

\* getItem resolves with the stored text or null
loadData_read ==
    /\ Idle /\ storageQ # <<>> /\ Head(storageQ).op = "getItem"
    /\ UNCHANGED presses
    /\ storageQ' = Tail(storageQ)
    /\ IF stored.present /\ stored.value # <<>>
       THEN /\ favorites' = JSONparse(stored.value)
            /\ start' = JSONparse(stored.value)
            /\ odd' = {}
       ELSE UNCHANGED <<favorites, start, odd>>
    /\ isLoading' = FALSE
    /\ loadPc' = "ready"
    /\ UNCHANGED <<users, showOnlyFavorites, formVars, stored, posts, dialogs,
                   toggling, newFavorites, storageFailed>>

\* getItem rejects: catch, finally
loadData_readFailed ==
    /\ Idle /\ storageQ # <<>> /\ Head(storageQ).op = "getItem"
    /\ UNCHANGED presses
    /\ storageQ' = Tail(storageQ)
    /\ dialogs' = Append(dialogs, "loadError")
    /\ isLoading' = FALSE
    /\ loadPc' = "readFailed"
    /\ storageFailed' = TRUE
    /\ UNCHANGED <<users, favorites, showOnlyFavorites, formVars, stored, posts,
                   toggling, newFavorites, start, odd>>

(***************************************************************************)
(* toggleFavorite(userId), pressed on a card of the rendered list.         *)
(***************************************************************************)
\* toggleFavorite with setFavorites moved after the awaited setItem
toggleFavorite_setAfterSave(userId) ==
    /\ Interactive
    /\ presses' = presses + 1
    /\ \E i \in 1..Len(getFilteredUsers) : getFilteredUsers[i].id = userId
    /\ newFavorites' = toggled(favorites, userId)
    /\ toggling' = TRUE
    /\ UNCHANGED <<users, favorites, isLoading, showOnlyFavorites, formVars, stored, storageQ,
                   posts, dialogs, loadPc, historyVars>>

\* up to and including setFavorites(newFavorites)
toggleFavorite_set(userId) ==
    /\ Interactive
    /\ presses' = presses + 1
    /\ \E i \in 1..Len(getFilteredUsers) : getFilteredUsers[i].id = userId
    /\ newFavorites' = toggled(favorites, userId)
    /\ favorites' = toggled(favorites, userId)
    /\ toggling' = TRUE
    /\ odd' = SymDiff(odd, {userId})
    /\ UNCHANGED <<users, isLoading, showOnlyFavorites, formVars, stored, storageQ, posts,
                   dialogs, loadPc, start, storageFailed>>

\* AsyncStorage.setItem(FAVORITES_KEY, JSON.stringify(newFavorites)) is called
toggleFavorite_save ==
    /\ toggling
    /\ UNCHANGED presses
    /\ storageQ' = Append(storageQ, [op |-> "setItem", value |-> JSONstringify(newFavorites)])
    /\ toggling' = FALSE
    /\ newFavorites' = <<>>
    /\ UNCHANGED <<users, favorites, isLoading, showOnlyFavorites, formVars, stored, posts,
                   dialogs, loadPc, historyVars>>

\* a storage callback that runs on another thread, in the middle of a handler too
toggleFavorite_savedOnOtherThread ==
    /\ storageQ # <<>> /\ Head(storageQ).op = "setItem"
    /\ UNCHANGED presses
    /\ stored' = Present(Head(storageQ).value)
    /\ storageQ' = Tail(storageQ)
    /\ UNCHANGED <<users, favorites, isLoading, showOnlyFavorites, formVars, posts,
                   dialogs, loadPc, toggling, newFavorites, historyVars>>

\* setItem resolves: the handler ends
toggleFavorite_saved ==
    /\ Idle /\ storageQ # <<>> /\ Head(storageQ).op = "setItem"
    /\ UNCHANGED presses
    /\ stored' = Present(Head(storageQ).value)
    /\ storageQ' = Tail(storageQ)
    /\ UNCHANGED <<users, favorites, isLoading, showOnlyFavorites, formVars, posts,
                   dialogs, loadPc, toggling, newFavorites, historyVars>>

\* setItem rejects: console.error only
toggleFavorite_saveFailed ==
    /\ Idle /\ storageQ # <<>> /\ Head(storageQ).op = "setItem"
    /\ UNCHANGED presses
    /\ storageQ' = Tail(storageQ)
    /\ storageFailed' = TRUE
    /\ UNCHANGED <<users, favorites, isLoading, showOnlyFavorites, formVars, stored, posts,
                   dialogs, loadPc, toggling, newFavorites, start, odd>>

(***************************************************************************)
(* clearAllFavorites and the two buttons of its dialog.                    *)
(***************************************************************************)
\* clearAllFavorites without the confirmation dialog
clearAllFavorites_noPrompt ==
    /\ Interactive
    /\ presses' = presses + 1
    /\ storageQ' = Append(storageQ, [op |-> "removeItem", value |-> <<>>])
    /\ UNCHANGED <<users, favorites, isLoading, showOnlyFavorites, formVars, stored, dialogs,
                   posts, loadPc, toggling, newFavorites, historyVars>>

clearAllFavorites ==
    /\ Interactive
    /\ presses' = presses + 1
    /\ dialogs' = Append(dialogs, "confirm")
    /\ UNCHANGED <<users, favorites, isLoading, showOnlyFavorites, formVars, stored, storageQ,
                   posts, loadPc, toggling, newFavorites, historyVars>>

\* "Annuler"
clearAllFavorites_cancel ==
    /\ Idle /\ dialogs # <<>> /\ Last(dialogs) = "confirm"
    /\ UNCHANGED presses
    /\ dialogs' = Front(dialogs)
    /\ UNCHANGED <<users, favorites, isLoading, showOnlyFavorites, formVars, stored, storageQ,
                   posts, loadPc, toggling, newFavorites, historyVars>>

\* "Effacer": onPress calls AsyncStorage.removeItem
clearAllFavorites_onPress ==
    /\ Idle /\ dialogs # <<>> /\ Last(dialogs) = "confirm"
    /\ UNCHANGED presses
    /\ dialogs' = Front(dialogs)
    /\ storageQ' = Append(storageQ, [op |-> "removeItem", value |-> <<>>])
    /\ UNCHANGED <<users, favorites, isLoading, showOnlyFavorites, formVars, stored,
                   posts, loadPc, toggling, newFavorites, historyVars>>

\* removeItem resolves: setFavorites([]) and the success alert
clearAllFavorites_removed ==
    /\ Idle /\ storageQ # <<>> /\ Head(storageQ).op = "removeItem"
    /\ UNCHANGED presses
    /\ stored' = Absent
    /\ storageQ' = Tail(storageQ)
    /\ favorites' = <<>>
    /\ dialogs' = Append(dialogs, "cleared")
    /\ start' = <<>>
    /\ odd' = {}
    /\ UNCHANGED <<users, isLoading, showOnlyFavorites, formVars, posts, loadPc,
                   toggling, newFavorites, storageFailed>>

\* removeItem rejects: the promise of onPress is rejected and nobody handles it
clearAllFavorites_removeFailed ==
    /\ Idle /\ storageQ # <<>> /\ Head(storageQ).op = "removeItem"
    /\ UNCHANGED presses
    /\ storageQ' = Tail(storageQ)
    /\ storageFailed' = TRUE
    /\ UNCHANGED <<users, favorites, isLoading, showOnlyFavorites, formVars, stored, posts,
                   dialogs, loadPc, toggling, newFavorites, start, odd>>

(***************************************************************************)
(* The form and addUser.                                                   *)
(***************************************************************************)
setNewUserName(text) ==
    /\ Interactive
    /\ presses' = presses + 1
    /\ newUserName' = text
    /\ UNCHANGED <<users, favorites, isLoading, showOnlyFavorites, newUserEmail, stored,
                   storageQ, posts, dialogs, loadPc, toggling, newFavorites, historyVars>>

setNewUserEmail(text) ==
    /\ Interactive
    /\ presses' = presses + 1
    /\ newUserEmail' = text
    /\ UNCHANGED <<users, favorites, isLoading, showOnlyFavorites, newUserName, stored,
                   storageQ, posts, dialogs, loadPc, toggling, newFavorites, historyVars>>

\* addUser with the validation written without trim()
addUser_noTrim ==
    /\ Interactive
    /\ presses' = presses + 1
    /\ IF newUserName = <<>> \/ newUserEmail = <<>>
       THEN /\ dialogs' = Append(dialogs, "validation")
            /\ UNCHANGED posts
       ELSE /\ posts' = Append(posts, [name |-> newUserName, email |-> newUserEmail,
                                       users |-> users])
            /\ UNCHANGED dialogs
    /\ UNCHANGED <<users, favorites, isLoading, showOnlyFavorites, formVars, stored, storageQ,
                   loadPc, toggling, newFavorites, historyVars>>

\* "Ajouter": the validation, then axios.post is called
addUser ==
    /\ Interactive
    /\ presses' = presses + 1
    /\ IF Trim(newUserName) = <<>> \/ Trim(newUserEmail) = <<>>
       THEN /\ dialogs' = Append(dialogs, "validation")
            /\ UNCHANGED posts
       ELSE /\ posts' = Append(posts, [name |-> newUserName, email |-> newUserEmail,
                                       users |-> users])
            /\ UNCHANGED dialogs
    /\ UNCHANGED <<users, favorites, isLoading, showOnlyFavorites, formVars, stored, storageQ,
                   loadPc, toggling, newFavorites, historyVars>>

\* the k-th POST in flight resolves; users is the one of the render addUser was made in
addUser_posted(k, newId) ==
    /\ Idle /\ k \in 1..Len(posts)
    /\ UNCHANGED presses
    /\ LET newUser == [id |-> newId, name |-> posts[k].name, email |-> posts[k].email]
       IN  users' = <<newUser>> \o posts[k].users
    /\ newUserName' = <<>>
    /\ newUserEmail' = <<>>
    /\ dialogs' = Append(dialogs, "added")
    /\ posts' = SubSeq(posts, 1, k - 1) \o SubSeq(posts, k + 1, Len(posts))
    /\ UNCHANGED <<favorites, isLoading, showOnlyFavorites, stored, storageQ, loadPc,
                   toggling, newFavorites, historyVars>>

\* the k-th POST in flight rejects
addUser_postFailed(k) ==
    /\ Idle /\ k \in 1..Len(posts)
    /\ UNCHANGED presses
    /\ dialogs' = Append(dialogs, "addError")
    /\ posts' = SubSeq(posts, 1, k - 1) \o SubSeq(posts, k + 1, Len(posts))
    /\ UNCHANGED <<users, favorites, isLoading, showOnlyFavorites, formVars, stored, storageQ,
                   loadPc, toggling, newFavorites, historyVars>>

(***************************************************************************)
(* The filter button and the button of a one-button alert.                 *)
(***************************************************************************)
setShowOnlyFavorites ==
    /\ Interactive
    /\ presses' = presses + 1
    /\ showOnlyFavorites' = ~showOnlyFavorites
    /\ UNCHANGED <<users, favorites, isLoading, formVars, stored, storageQ, posts, dialogs,
                   loadPc, toggling, newFavorites, historyVars>>

dismissAlert ==
    /\ Idle /\ dialogs # <<>> /\ Last(dialogs) # "confirm"
    /\ UNCHANGED presses
    /\ dialogs' = Front(dialogs)
    /\ UNCHANGED <<users, favorites, isLoading, showOnlyFavorites, formVars, stored, storageQ,
                   posts, loadPc, toggling, newFavorites, historyVars>>

UserIds == {1, 2} \cup PostIds

Next ==
    \/ loadData
    \/ loadData_fetched
    \/ loadData_fetchFailed
    \/ loadData_read
    \/ loadData_readFailed
    \/ \E userId \in UserIds : toggleFavorite_set(userId)
    \/ toggleFavorite_save
    \/ toggleFavorite_saved
    \/ toggleFavorite_saveFailed
    \/ clearAllFavorites
    \/ clearAllFavorites_cancel
    \/ clearAllFavorites_onPress
    \/ clearAllFavorites_removed
    \/ clearAllFavorites_removeFailed
    \/ \E text \in FieldValues : setNewUserName(text)
    \/ \E text \in FieldValues : setNewUserEmail(text)
    \/ addUser
    \/ \E k \in 1..Len(posts), newId \in PostIds : addUser_posted(k, newId)
    \/ \E k \in 1..Len(posts) : addUser_postFailed(k)
    \/ setShowOnlyFavorites
    \/ dismissAlert

Spec == Init /\ [][Next]_vars

TypeOK ==
    /\ isLoading \in BOOLEAN /\ showOnlyFavorites \in BOOLEAN /\ toggling \in BOOLEAN
    /\ presses \in 0..MaxPresses
    /\ newUserName \in FieldValues /\ newUserEmail \in FieldValues

(***************************************************************************)
(* Derived values used by the properties.                                  *)
(***************************************************************************)
\* the favorites list the storage holds, an absent key counted as the empty list
PersistedList == IF stored.present THEN JSONparse(stored.value) ELSE <<>>

\* handler invocations that have started and not ended
HandlersInFlight ==
    (IF loadPc \in {"fetching", "reading"} THEN 1 ELSE 0)
    + (IF toggling THEN 1 ELSE 0)
    + Cardinality({ i \in 1..Len(storageQ) : storageQ[i].op # "getItem" })
    + Len(posts)

IsBlank(text) == \A i \in 1..Len(text) : text[i] = " "

ConfirmOnTop(d) == d # <<>> /\ Last(d) = "confirm"

\* positions of the users whose id is a favorite
FavoritePositions == { i \in 1..Len(users) : users[i].id \in Elements(favorites) }

\* the k-th smallest of a set of positions
KthPosition(positions, k) ==
    CHOOSE i \in positions : Cardinality({ j \in positions : j <= i }) = k

(***************************************************************************)
(* C1: after any sequence of toggleFavorite calls on a duplicate-free      *)
(* list, favorites has no duplicate and holds exactly the ids of the       *)
(* starting list with those toggled an odd number of times flipped.        *)
(***************************************************************************)
C1_ToggleParity ==
    /\ NoDuplicates(favorites)
    /\ Elements(favorites) = SymDiff(Elements(start), odd)

\* one id of the starting list was toggled off and another id toggled on
C1_Witness ==
    /\ Elements(start) \cap odd # {}
    /\ odd \ Elements(start) # {}

C3_ClearFailureNotified ==
    [][clearAllFavorites_removeFailed =>
        (Len(dialogs') = Len(dialogs) + 1 /\ Last(dialogs') = "clearError")]_vars

(***************************************************************************)
(* C4: removeItem is called only by the confirm button of the prompt;      *)
(* opening the prompt and cancelling it change neither the stored value    *)
(* nor favorites nor the calls in flight; the key is deleted and a         *)
(* non-empty favorites is reset only when that removeItem resolves.        *)
(***************************************************************************)
C4_ClearOnlyAfterConfirm ==
    [][/\ (Len(storageQ') > Len(storageQ) /\ Last(storageQ').op = "removeItem")
            => (ConfirmOnTop(dialogs) /\ dialogs' = Front(dialogs))
       /\ (dialogs' = Append(dialogs, "confirm") \/ (ConfirmOnTop(dialogs) /\ ~ConfirmOnTop(dialogs')
                                                      /\ storageQ' = storageQ))
            => (stored' = stored /\ favorites' = favorites /\ storageQ' = storageQ)
       /\ (ConfirmOnTop(dialogs) /\ ConfirmOnTop(dialogs'))
            => (favorites' = favorites /\ (stored' = stored \/ Head(storageQ).op = "setItem"))
       /\ ((stored.present /\ ~stored'.present) \/ (favorites # <<>> /\ favorites' = <<>> /\ ~toggling'))
            => (storageQ # <<>> /\ Head(storageQ).op = "removeItem" /\ storageQ' = Tail(storageQ))
      ]_vars

\* the prompt is open over a non-empty favorites that is also in storage
C4_Witness ==
    ConfirmOnTop(dialogs) /\ favorites # <<>> /\ stored.present /\ PersistedList # <<>>

(***************************************************************************)
(* C5 as stated: when a POST of addUser succeeds, users becomes the        *)
(* returned user followed by the users that were in the list, in order,    *)
(* and both form fields are empty.                                         *)
(***************************************************************************)
C5_AddPrepends ==
    [][\A k \in 1..Len(posts), newId \in PostIds :
          addUser_posted(k, newId) =>
            /\ users' = <<[id |-> newId, name |-> posts[k].name, email |-> posts[k].email]>> \o users
            /\ newUserName' = <<>>
            /\ newUserEmail' = <<>>]_vars

(***************************************************************************)
(* C6: addUser with a name or an email that is empty or only whitespace    *)
(* raises the validation alert, sends no POST and leaves users and both    *)
(* fields as they are; a POST is only ever sent with two non-blank fields. *)
(***************************************************************************)
C6_ValidationAborts ==
    [][/\ (addUser /\ (IsBlank(newUserName) \/ IsBlank(newUserEmail)))
            => /\ dialogs' = Append(dialogs, "validation")
               /\ UNCHANGED <<posts, users, newUserName, newUserEmail>>
       /\ Len(posts') > Len(posts)
            => (~IsBlank(newUserName) /\ ~IsBlank(newUserEmail))
      ]_vars

\* the validation alert is up for a name of whitespace and a filled email
C6_Witness ==
    /\ dialogs # <<>> /\ Last(dialogs) = "validation"
    /\ newUserName # <<>> /\ IsBlank(newUserName)
    /\ ~IsBlank(newUserEmail)

(***************************************************************************)
(* C7: when the GET of loadData fails, the load alert is raised, isLoading *)
(* becomes false, getItem is never called, and favorites is empty (until   *)
(* something is toggled) whatever the storage holds.                       *)
(***************************************************************************)
C7_FetchFailureSkipsFavorites ==
    /\ [][(loadPc = "fetching" /\ loadPc' = "fetchFailed")
            => /\ dialogs' = Append(dialogs, "loadError")
               /\ ~isLoading'
               /\ favorites' = <<>>
               /\ UNCHANGED <<stored, storageQ>>]_vars
    /\ [](loadPc = "fetchFailed"
            => /\ ~isLoading
               /\ \A i \in 1..Len(storageQ) : storageQ[i].op # "getItem"
               /\ odd = {} => favorites = <<>>)

\* the load has failed at the GET, the storage holds favorites, favorites is empty
C7_Witness ==
    /\ loadPc = "fetchFailed" /\ ~isLoading
    /\ PersistedList # <<>> /\ favorites = <<>>

(***************************************************************************)
(* C8: with the filter on, getFilteredUsers is the users whose id is in    *)
(* favorites, in the order of users; with the filter off it is users.      *)
(***************************************************************************)
C8_FilteredUsers ==
    IF showOnlyFavorites
    THEN /\ Len(getFilteredUsers) = Cardinality(FavoritePositions)
         /\ \A k \in 1..Len(getFilteredUsers) :
                getFilteredUsers[k] = users[KthPosition(FavoritePositions, k)]
    ELSE getFilteredUsers = users

\* the filter is on, a favorite matches no user, some users pass and some do not
C8_Witness ==
    /\ showOnlyFavorites
    /\ Elements(favorites) \ { users[i].id : i \in 1..Len(users) } # {}
    /\ getFilteredUsers # <<>>
    /\ Len(getFilteredUsers) < Len(users)

(***************************************************************************)
(* C9: when toggleFavorite calls setItem, favorites already holds the list *)
(* being written; when that write fails, favorites is not rolled back, no  *)
(* alert is raised and the stored value is not changed.                    *)
(***************************************************************************)
C9_CommitThenPersist ==
    [][/\ (Len(storageQ') > Len(storageQ) /\ Last(storageQ').op = "setItem")
            => (favorites = JSONparse(Last(storageQ').value) /\ favorites' = favorites)
       /\ toggleFavorite_saveFailed
            => UNCHANGED <<favorites, dialogs, stored>>
      ]_vars

\* one toggle, its write failed: favorites holds an id the storage lacks, no alert
C9_Witness ==
    /\ presses = 1 /\ storageFailed /\ loadPc = "ready"
    /\ storageQ = <<>> /\ ~toggling /\ dialogs = <<>>
    /\ favorites # PersistedList

(***************************************************************************)
(* C10 as stated: once the load has succeeded, with no storage call in     *)
(* flight and none failed, the stored list equals favorites.               *)
(***************************************************************************)
C10_PersistedMatchesMemory ==
    (loadPc = "ready" /\ storageQ = <<>> /\ ~toggling /\ ~storageFailed)
        => PersistedList = favorites

====
